---- MODULE Spec2Model ----
(***************************************************************************)
(* Partial-event merger of the kubernetes_logs source                      *)
(* (src/src/sources/kubernetes_logs/partial_events_merger.rs).             *)
(*                                                                         *)
(* The state is the PartialEventMergeState (the buckets map and the        *)
(* optional ceiling), the clock read by Instant::now(), the output stream  *)
(* and the diagnostics emitted so far.  The three callbacks registered     *)
(* with map_with_expiration are the actions Item, Tick and EndOfStream;    *)
(* AdvanceTime lets the clock move.                                        *)
(*                                                                         *)
(* Option<T> is written as a sequence of length at most one: None is <<>>  *)
(* and Some(x) is <<x>>.  A field of a LogEvent holds what its accessor    *)
(* resolves to: message is Some(bytes) exactly when the message path holds *)
(* a Value::Bytes, partial is Some(b) exactly when the flag is a boolean,  *)
(* file is Some(s) exactly when the file field is a string.                *)
(***************************************************************************)
EXTENDS Integers, Sequences, FiniteSets, TLC

\* ------------------------------------------------------------- bounds
\* Number of input events the stream delivers.
MaxEvents == 2
\* The clock runs from 0 to MaxTime.
MaxTime == 3
\* The clock counts ClockUnitsPerSecond units to the second, so that two
\* deadlines can fall between two ticks.
ClockUnitsPerSecond == 2

\* ------------------------------------------------------ program constants
\* Duration::from_secs(1), the tick interval handed to map_with_expiration,
\* in seconds.
TickInterval == 1

\* ---------------------------------------------------------- input sets
\* Lengths of the byte payloads the input events carry.
PayloadLens == {1, 3}
\* Values of maybe_max_merged_line_bytes.
MaxChoices == {<<>>, <<2>>}
\* Values of expiration_time (merge_partial_events_with_custom_expiration),
\* in clock units.
ExpirationTimes == {1, 2}
\* What event.get(&file_path).and_then(as_str) resolves to.
FileFields == {<<>>, <<"f1">>}
\* What event.get(&partial_flag_path).and_then(as_boolean) resolves to.
PartialFields == {<<>>, <<TRUE>>, <<FALSE>>}

\* -------------------------------------------------------------- Option
None == <<>>
Some(x) == <<x>>
IsSome(o) == Len(o) = 1
Unwrap(o) == o[1]

\* The grouping keys: the file strings, and "" of unwrap_or_default.
Keys == {""} \cup {Unwrap(f) : f \in FileFields \ {None}}

\* The payload of input event id: len bytes, each naming the event it
\* comes from and its position, so that a merged payload shows which
\* fragments it holds and in which order.
Payload(id, len) == [j \in 1..len |-> 10 * id + j]
\* The input event a byte comes from.
SourceOf(byte) == byte \div 10

VARIABLES
    buckets,                       \* PartialEventMergeState.buckets
    maybe_max_merged_line_bytes,   \* PartialEventMergeState.maybe_max_merged_line_bytes
    expiration_time,               \* the expiration window
    now,                           \* Instant::now()
    lastTick,                      \* the time of the last tick callback
    ended,                         \* the end-of-stream callback has run
    input,                         \* the input events consumed so far, each with its
                                   \* key, whether it found no
                                   \* bucket (fresh) and the bucket's flag after add_event
    output,                        \* the records emitted so far
    diags,                         \* the KubernetesMergedLineTooBigError emitted so far
    last                           \* the last callback and what it did

vars == <<buckets, maybe_max_merged_line_bytes, expiration_time, now, lastTick,
          ended, input, output, diags, last>>

\* ------------------------------------------------- PartialEventMergeState

\* Faulty variant: a payload as long as the ceiling counts as over the limit.
exceeds_limit_inclusive(len, max) == IsSome(max) /\ len >= Unwrap(max)

\* `if let Some(max_merged_line_bytes) = ... { bytes_mut.len() > max_merged_line_bytes }`
exceeds_limit(len, max) == IsSome(max) /\ len > Unwrap(max)

\* Faulty variant: the two slices are appended in the wrong order.
extend_from_slices_swapped(prev_value, new_value) == new_value \o prev_value

\* bytes_mut.extend_from_slice(prev_value); bytes_mut.extend_from_slice(new_value)
extend_from_slices(prev_value, new_value) == prev_value \o new_value

\* emit!(KubernetesMergedLineTooBigError { event, configured_limit, encountered_size_so_far })
TooBigError(event_bytes, max, size) ==
    [event |-> event_bytes, configured_limit |-> Unwrap(max),
     encountered_size_so_far |-> size]

\* Faulty variant: the merged message is written into the incoming event, which
\* takes the place of the buffered one.
add_event_merge_keeps_last(bucket, event, max) ==
    IF bucket.exceeds_max_merged_line_limit
    THEN [bucket |-> bucket, diags |-> <<>>]
    ELSE IF IsSome(bucket.event.message) /\ IsSome(event.message)
    THEN LET bytes_mut == extend_from_slices(Unwrap(bucket.event.message),
                                             Unwrap(event.message))
             over == exceeds_limit(Len(bytes_mut), max)
         IN [bucket |->
                [bucket EXCEPT
                    !.exceeds_max_merged_line_limit = IF over THEN TRUE ELSE @,
                    !.event = [event EXCEPT !.message = Some(bytes_mut)]],
             diags |-> IF over
                       THEN <<TooBigError(Unwrap(event.message), max, Len(bytes_mut))>>
                       ELSE <<>>]
    ELSE [bucket |-> bucket, diags |-> <<>>]

\* Faulty variant: a flagged bucket keeps merging the fragments that arrive (the
\* early return is missing).
add_event_merge_no_return(bucket, event, max) ==
    IF IsSome(bucket.event.message) /\ IsSome(event.message)
    THEN LET bytes_mut == Unwrap(bucket.event.message) \o Unwrap(event.message)
             over == exceeds_limit(Len(bytes_mut), max)
         IN [bucket |->
                [bucket EXCEPT
                    !.exceeds_max_merged_line_limit = over,
                    !.event.message = Some(bytes_mut)],
             diags |-> IF over
                       THEN <<TooBigError(Unwrap(event.message), max, Len(bytes_mut))>>
                       ELSE <<>>]
    ELSE [bucket |-> bucket, diags |-> <<>>]

\* add_event, a bucket exists for file: the bucket afterwards and the
\* diagnostics emitted.
add_event_merge(bucket, event, max) ==
    IF bucket.exceeds_max_merged_line_limit
    THEN [bucket |-> bucket, diags |-> <<>>]
    ELSE IF IsSome(bucket.event.message) /\ IsSome(event.message)
    THEN LET bytes_mut == extend_from_slices(Unwrap(bucket.event.message),
                                             Unwrap(event.message))
             over == exceeds_limit(Len(bytes_mut), max)
         IN [bucket |->
                [bucket EXCEPT
                    !.exceeds_max_merged_line_limit = IF over THEN TRUE ELSE @,
                    !.event.message = Some(bytes_mut)],
             diags |-> IF over
                       THEN <<TooBigError(Unwrap(event.message), max, Len(bytes_mut))>>
                       ELSE <<>>]
    ELSE [bucket |-> bucket, diags |-> <<>>]

\* Faulty variant: the deadline of a new bucket is the arrival time, without the
\* window.
add_event_new_no_window(event, max, exp, t) ==
    LET over == IsSome(event.message)
                /\ exceeds_limit(Len(Unwrap(event.message)), max)
    IN [bucket |-> [event |-> event,
                    expiration |-> t,
                    exceeds_max_merged_line_limit |-> over],
        diags |-> IF over
                  THEN <<TooBigError(Unwrap(event.message), max,
                                     Len(Unwrap(event.message)))>>
                  ELSE <<>>]

\* add_event, no bucket exists for file: the bucket inserted and the
\* diagnostics emitted.  t is Instant::now().
add_event_new(event, max, exp, t) ==
    LET over == IsSome(event.message)
                /\ exceeds_limit(Len(Unwrap(event.message)), max)
    IN [bucket |-> [event |-> event,
                    expiration |-> t + exp,
                    exceeds_max_merged_line_limit |-> over],
        diags |-> IF over
                  THEN <<TooBigError(Unwrap(event.message), max,
                                     Len(Unwrap(event.message)))>>
                  ELSE <<>>]

\* Faulty variant: a merge renews the deadline of the bucket.
add_event_renews(bs, max, event, file, exp, t) ==
    LET r == IF IsSome(bs[file])
             THEN add_event_merge(Unwrap(bs[file]), event, max)
             ELSE add_event_new(event, max, exp, t)
    IN [buckets |-> [bs EXCEPT ![file] = Some([r.bucket EXCEPT !.expiration = t + exp])],
        diags |-> r.diags]

\* Faulty variant: every fragment is folded into the bucket of the default key.
add_event_one_bucket(bs, max, event, file, exp, t) ==
    LET r == IF IsSome(bs[""])
             THEN add_event_merge(Unwrap(bs[""]), event, max)
             ELSE add_event_new(event, max, exp, t)
    IN [buckets |-> [bs EXCEPT ![""] = Some(r.bucket), ![file] = Some(r.bucket)],
        diags |-> r.diags]

\* PartialEventMergeState::add_event on the map bs.
add_event(bs, max, event, file, exp, t) ==
    LET r == IF IsSome(bs[file])
             THEN add_event_merge(Unwrap(bs[file]), event, max)
             ELSE add_event_new(event, max, exp, t)
    IN [buckets |-> [bs EXCEPT ![file] = Some(r.bucket)], diags |-> r.diags]

\* Faulty variant: the over-limit flag is not consulted.
is_emitted_always(bucket) == TRUE

\* .filter(|bucket| !bucket.exceeds_max_merged_line_limit), and the same test
\* in emit_expired_events and flush_events.
is_emitted(bucket) == ~bucket.exceeds_max_merged_line_limit

\* Faulty variant: the slot is cleared only when the record is returned; a flagged
\* bucket stays in the map.
remove_event_keeps_flagged(bs, file) ==
    IF IsSome(bs[file]) /\ is_emitted(Unwrap(bs[file]))
    THEN [buckets |-> [bs EXCEPT ![file] = None], result |-> Some(Unwrap(bs[file]).event)]
    ELSE [buckets |-> bs, result |-> None]

\* Faulty variant: the record is read with get() and the bucket stays in the map.
remove_event_keeps(bs, file) ==
    [buckets |-> bs,
     result |-> IF IsSome(bs[file]) /\ is_emitted(Unwrap(bs[file]))
                THEN Some(Unwrap(bs[file]).event)
                ELSE None]

\* Faulty variant: the removed record is returned whatever its flag.
remove_event_unfiltered(bs, file) ==
    [buckets |-> [bs EXCEPT ![file] = None],
     result |-> IF IsSome(bs[file]) THEN Some(Unwrap(bs[file]).event) ELSE None]

\* PartialEventMergeState::remove_event on the map bs.
remove_event(bs, file) ==
    [buckets |-> [bs EXCEPT ![file] = None],
     result |-> IF IsSome(bs[file]) /\ is_emitted(Unwrap(bs[file]))
                THEN Some(Unwrap(bs[file]).event)
                ELSE None]

\* Faulty variant: a bucket expires only after its deadline, not at it.
is_expired_strictly(t, bucket) == t > bucket.expiration

\* let expired = now >= bucket.expiration
is_expired(t, bucket) == t >= bucket.expiration

\* Faulty variant: the sweep stops at the first expired bucket it meets.
expired_keys_first_only(bs, t) ==
    LET expired == {k \in DOMAIN bs : IsSome(bs[k]) /\ is_expired(t, Unwrap(bs[k]))}
    IN IF expired = {} THEN {} ELSE {CHOOSE k \in expired : TRUE}

\* The keys whose bucket emit_expired_events removes at time t.
expired_keys(bs, t) == {k \in DOMAIN bs : IsSome(bs[k]) /\ is_expired(t, Unwrap(bs[k]))}

\* Faulty variant: the sweep emits the expired buckets and retains them all.
emit_expired_events_retains(bs, t) ==
    [buckets |-> bs,
     emitted |-> {k \in expired_keys(bs, t) : is_emitted(Unwrap(bs[k]))}]

\* Faulty variant: the sweep removes only the buckets it emits; an expired flagged
\* bucket stays in the map.
emit_expired_events_keeps_flagged(bs, t) ==
    [buckets |-> [k \in DOMAIN bs |->
                    IF k \in expired_keys(bs, t) /\ is_emitted(Unwrap(bs[k]))
                    THEN None ELSE bs[k]],
     emitted |-> {k \in expired_keys(bs, t) : is_emitted(Unwrap(bs[k]))}]

\* PartialEventMergeState::emit_expired_events on the map bs: the map
\* afterwards and the keys whose record is emitted.
emit_expired_events(bs, t) ==
    [buckets |-> [k \in DOMAIN bs |-> IF k \in expired_keys(bs, t) THEN None ELSE bs[k]],
     emitted |-> {k \in expired_keys(bs, t) : is_emitted(Unwrap(bs[k]))}]

\* Faulty variant: the flush emits every bucket it drains, flagged or not.
flush_events_unfiltered(bs) ==
    [buckets |-> [k \in DOMAIN bs |-> None],
     emitted |-> {k \in DOMAIN bs : IsSome(bs[k])}]

\* Faulty variant: the flush removes only the buckets it emits (retain in the place
\* of drain).
flush_events_keeps_flagged(bs) ==
    [buckets |-> [k \in DOMAIN bs |->
                    IF IsSome(bs[k]) /\ is_emitted(Unwrap(bs[k])) THEN None ELSE bs[k]],
     emitted |-> {k \in DOMAIN bs : IsSome(bs[k]) /\ is_emitted(Unwrap(bs[k]))}]

\* PartialEventMergeState::flush_events on the map bs.
flush_events(bs) ==
    [buckets |-> [k \in DOMAIN bs |-> None],
     emitted |-> {k \in DOMAIN bs : IsSome(bs[k]) /\ is_emitted(Unwrap(bs[k]))}]

\* The orders in which a HashMap iteration (retain, drain) may visit the keys S.
IterationOrders(S) ==
    {o \in [1..Cardinality(S) -> S] : \A i, j \in 1..Cardinality(S) : o[i] = o[j] => i = j}

\* ------------------------------------------------------- the callbacks

\* Faulty variant: an event without a boolean partial flag counts as partial.
is_partial_of_default_true(event) ==
    IF IsSome(event.partial) THEN Unwrap(event.partial) ELSE TRUE

\* .and_then(|x| x.as_boolean()).unwrap_or(false)
is_partial_of(event) == IF IsSome(event.partial) THEN Unwrap(event.partial) ELSE FALSE

\* .and_then(|x| x.as_str()).map(|x| x.to_string()).unwrap_or_default()
file_of(event) == IF IsSome(event.file) THEN Unwrap(event.file) ELSE ""

\* What the per-item callback does with event at time t: the map afterwards,
\* the records it hands to the emitter, the diagnostics emitted, and the
\* flag of the key's bucket between add_event and remove_event.
on_event(bs, max, event, exp, t) ==
    LET file == file_of(event)
        added == add_event(bs, max, event, file, exp, t)
        removed == remove_event(added.buckets, file)
        flagged == Unwrap(added.buckets[file]).exceeds_max_merged_line_limit
    IN IF is_partial_of(event)
       THEN [buckets |-> added.buckets, emitted |-> <<>>, diags |-> added.diags,
             flagged |-> flagged]
       ELSE [buckets |-> removed.buckets,
             emitted |-> IF IsSome(removed.result)
                         THEN <<Unwrap(removed.result)>>
                         ELSE <<>>,
             diags |-> added.diags,
             flagged |-> flagged]

\* The message fields an input event with this id may carry.
MessageFields(id) == {None} \cup {Some(Payload(id, len)) : len \in PayloadLens}

Init ==
    /\ buckets = [k \in Keys |-> None]
    /\ maybe_max_merged_line_bytes \in MaxChoices
    /\ expiration_time \in ExpirationTimes
    /\ now = 0
    /\ lastTick = 0
    /\ ended = FALSE
    /\ input = <<>>
    /\ output = <<>>
    /\ diags = <<>>
    /\ last = [op |-> "init", emitted |-> 0, removed |-> {}]

\* Faulty variant: the per-item callback puts its record at the head of the
\* output instead of the end.
Item_prepends ==
    /\ ~ended
    /\ Len(input) < MaxEvents
    /\ now + expiration_time <= MaxTime
    /\ \E msg \in MessageFields(Len(input) + 1), f \in FileFields, p \in PartialFields :
        LET event == [id |-> Len(input) + 1, message |-> msg, file |-> f, partial |-> p]
            r == on_event(buckets, maybe_max_merged_line_bytes, event,
                          expiration_time, now)
        IN /\ buckets' = r.buckets
           /\ output' = [i \in 1..Len(r.emitted) |->
                            [event |-> r.emitted[i], by |-> "item"]] \o output
           /\ diags' = diags \o r.diags
           /\ input' = Append(input, [event |-> event,
                                      file |-> file_of(event),
                                      is_partial |-> is_partial_of(event),
                                      flagged |-> r.flagged,
                                      fresh |-> ~IsSome(buckets[file_of(event)])])
           /\ last' = [op |-> "item", emitted |-> Len(r.emitted),
                       removed |-> {k \in Keys : IsSome(buckets[k]) /\ ~IsSome(r.buckets[k])}]
    /\ UNCHANGED <<maybe_max_merged_line_bytes, expiration_time, now, lastTick, ended>>

\* The per-item callback, on the next event of the stream.
Item ==
    /\ ~ended
    /\ Len(input) < MaxEvents
    /\ now + expiration_time <= MaxTime
    /\ \E msg \in MessageFields(Len(input) + 1), f \in FileFields, p \in PartialFields :
        LET event == [id |-> Len(input) + 1, message |-> msg, file |-> f, partial |-> p]
            r == on_event(buckets, maybe_max_merged_line_bytes, event,
                          expiration_time, now)
        IN /\ buckets' = r.buckets
           /\ output' = output \o [i \in 1..Len(r.emitted) |->
                                      [event |-> r.emitted[i], by |-> "item"]]
           /\ diags' = diags \o r.diags
           /\ input' = Append(input, [event |-> event,
                                      file |-> file_of(event),
                                      is_partial |-> is_partial_of(event),
                                      flagged |-> r.flagged,
                                      fresh |-> ~IsSome(buckets[file_of(event)])])
           /\ last' = [op |-> "item", emitted |-> Len(r.emitted),
                       removed |-> {k \in Keys : IsSome(buckets[k]) /\ ~IsSome(r.buckets[k])}]
    /\ UNCHANGED <<maybe_max_merged_line_bytes, expiration_time, now, lastTick, ended>>

\* The periodic tick callback.
Tick ==
    /\ ~ended
    /\ LET r == emit_expired_events(buckets, now)
       IN /\ buckets' = r.buckets
          /\ \E order \in IterationOrders(r.emitted) :
                output' = output \o [i \in 1..Len(order) |->
                                        [event |-> Unwrap(buckets[order[i]]).event,
                                         by |-> "tick"]]
          /\ last' = [op |-> "tick", emitted |-> Cardinality(r.emitted),
                      removed |-> expired_keys(buckets, now)]
    /\ lastTick' = now
    /\ UNCHANGED <<maybe_max_merged_line_bytes, expiration_time, now, ended, input, diags>>

\* The end-of-stream callback: the input stream is exhausted.
EndOfStream ==
    /\ ~ended
    /\ LET r == flush_events(buckets)
       IN /\ buckets' = r.buckets
          /\ \E order \in IterationOrders(r.emitted) :
                output' = output \o [i \in 1..Len(order) |->
                                        [event |-> Unwrap(buckets[order[i]]).event,
                                         by |-> "flush"]]
          /\ last' = [op |-> "flush", emitted |-> Cardinality(r.emitted),
                      removed |-> {k \in Keys : IsSome(buckets[k])}]
    /\ ended' = TRUE
    /\ UNCHANGED <<maybe_max_merged_line_bytes, expiration_time, now, lastTick, input, diags>>

\* The clock moves on by one unit; the tick callback runs at least once per
\* tick interval.
AdvanceTime ==
    /\ ~ended
    /\ now < MaxTime
    /\ now + 1 <= lastTick + TickInterval * ClockUnitsPerSecond
    /\ now' = now + 1
    /\ UNCHANGED <<buckets, maybe_max_merged_line_bytes, expiration_time, lastTick,
                   ended, input, output, diags, last>>

Next == Item \/ Tick \/ EndOfStream \/ AdvanceTime

Spec == Init /\ [][Next]_vars

\* The tick callback keeps being invoked and time keeps advancing.
FairSpec == Spec /\ WF_vars(Tick) /\ WF_vars(AdvanceTime)

\* ------------------------------------------------ reading the history

RECURSIVE Concat(_)
\* The concatenation of a sequence of byte strings.
Concat(seqs) == IF seqs = <<>> THEN <<>> ELSE Head(seqs) \o Concat(Tail(seqs))

\* The payload of a record: its message bytes, empty when it has none.
PayloadOf(event) == IF IsSome(event.message) THEN Unwrap(event.message) ELSE <<>>

RECURSIVE Fragments(_, _, _)
\* The input events of key k among input[i..n], in arrival order.
Fragments(k, i, n) ==
    IF i > n THEN <<>>
    ELSE (IF input[i].file = k THEN <<input[i].event>> ELSE <<>>) \o Fragments(k, i + 1, n)

\* The payloads of a sequence of events.
Payloads(events) == [i \in 1..Len(events) |-> PayloadOf(events[i])]

MaxOf(S) == CHOOSE x \in S : \A y \in S : y <= x

\* The first event of the chain that input[n] belongs to: the one after the
\* previous non-partial event of the same key.
ChainStart(n) ==
    LET ends == {i \in 1..(n - 1) : input[i].file = input[n].file /\ ~input[i].is_partial}
    IN IF ends = {} THEN 1 ELSE MaxOf(ends) + 1

\* The event that created the bucket input[n] was added to (input[n] itself
\* when it found no bucket).
BucketStart(n) ==
    MaxOf({i \in 1..n : input[i].file = input[n].file /\ input[i].fresh})

\* A payload of this length does not exceed the configured ceiling.
UnderCeiling(len) ==
    ~IsSome(maybe_max_merged_line_bytes) \/ len <= Unwrap(maybe_max_merged_line_bytes)

\* Every event of the sequence carries a byte-string message.
AllBytes(events) == \A i \in 1..Len(events) : IsSome(events[i].message)

\* The last callback was the per-item callback of a non-partial event.
TerminatorProcessed ==
    last.op = "item" /\ Len(input) > 0 /\ ~input[Len(input)].is_partial

\* The per-item callback of the last input event emitted exactly the record
\* with this payload.
EmittedPayload(bytes) ==
    /\ last.emitted = 1
    /\ Len(output) > 0
    /\ output[Len(output)].by = "item"
    /\ PayloadOf(output[Len(output)].event) = bytes

\* ---------------------------------------------------------------- C1

\* C1 as stated: when the terminator of a chain of key K (the run of K's
\* events since K's previous non-partial event, each with a byte-string
\* message) is processed and the concatenated payload does not exceed the
\* ceiling, the record emitted has the concatenation of the payloads of all
\* fragments of the chain.  An expiry sweep in the middle of the chain
\* refutes it.
C1_RoundTripWholeChain ==
    TerminatorProcessed =>
        LET n == Len(input)
            chain == Fragments(input[n].file, ChainStart(n), n)
        IN (AllBytes(chain) /\ UnderCeiling(Len(Concat(Payloads(chain)))))
           => EmittedPayload(Concat(Payloads(chain)))

\* C1, amended: when a non-partial event of key K is processed, the
\* fragments of K consumed since K's bucket was created all carry a
\* byte-string message, and their concatenated payload does not exceed the
\* ceiling (or there is none), the callback emits exactly one record, whose
\* payload is the concatenation of their payloads in arrival order.
C1_RoundTripSinceBucketCreated ==
    TerminatorProcessed =>
        LET n == Len(input)
            chain == Fragments(input[n].file, BucketStart(n), n)
        IN (AllBytes(chain) /\ UnderCeiling(Len(Concat(Payloads(chain)))))
           => EmittedPayload(Concat(Payloads(chain)))

\* A terminator completed a chain of two fragments under a configured
\* ceiling, and the merged record was emitted.
C1_Witness ==
    /\ TerminatorProcessed
    /\ IsSome(maybe_max_merged_line_bytes)
    /\ BucketStart(Len(input)) < Len(input)
    /\ LET n == Len(input)
           chain == Fragments(input[n].file, BucketStart(n), n)
       IN /\ Len(chain) >= 2
          /\ AllBytes(chain)
          /\ UnderCeiling(Len(Concat(Payloads(chain))))
          /\ EmittedPayload(Concat(Payloads(chain)))

\* ---------------------------------------------------------------- C2

\* C2: a non-partial event that finds no bucket for its key and whose
\* payload does not exceed the ceiling is emitted by the per-item callback
\* that consumed it, unmodified, as exactly one output item, and no bucket
\* for its key remains.
C2_SingleCompleteFragment ==
    (TerminatorProcessed /\ input[Len(input)].fresh
        /\ UnderCeiling(Len(PayloadOf(input[Len(input)].event))))
    => /\ last.emitted = 1
       /\ Len(output) > 0
       /\ output[Len(output)] = [event |-> input[Len(input)].event, by |-> "item"]
       /\ ~IsSome(buckets[input[Len(input)].file])

\* A non-partial event with a byte payload found no bucket, under a
\* configured ceiling, and was emitted.
C2_Witness ==
    /\ TerminatorProcessed
    /\ input[Len(input)].fresh
    /\ IsSome(maybe_max_merged_line_bytes)
    /\ IsSome(input[Len(input)].event.message)
    /\ UnderCeiling(Len(PayloadOf(input[Len(input)].event)))
    /\ last.emitted = 1
    /\ output[Len(output)].event = input[Len(input)].event

\* ------------------------------------------------ reading a step

\* The step is a per-item callback, an end-of-stream callback, a move of the
\* clock, or (none of these) a tick callback.
ItemStep == input' # input
FlushStep == ended' # ended
TimeStep == now' # now
TickStep == ~ItemStep /\ ~FlushStep /\ ~TimeStep

\* The records the step appends to the output.
NewRecords == SubSeq(output', Len(output) + 1, Len(output'))

\* The output only grows.
OutputGrows == Len(output') >= Len(output) /\ SubSeq(output', 1, Len(output)) = output

\* The bucket of key k is in the map and flagged over-limit.
Flagged(k) == IsSome(buckets[k]) /\ Unwrap(buckets[k]).exceeds_max_merged_line_limit

\* ---------------------------------------------------------------- C3

\* C3: the record of a flagged bucket is never put into the output: no step
\* (completion, tick sweep, end of stream) appends the record of a bucket
\* that was flagged before the step, and a per-item callback whose add_event
\* leaves the key's bucket flagged (a first fragment over the ceiling, or a
\* merge that crosses it) emits nothing.
C3_FlaggedNeverEmitted ==
    [][/\ OutputGrows
       /\ \A k \in Keys : Flagged(k) =>
            \A i \in 1..Len(NewRecords) :
                NewRecords[i].event.id # Unwrap(buckets[k]).event.id
       /\ (ItemStep /\ input'[Len(input')].flagged) => NewRecords = <<>>]_vars

\* A merge crossed the ceiling and the tick sweep then removed the flagged
\* bucket without emitting it.
C3_Witness ==
    /\ last.op = "tick"
    /\ last.removed # {}
    /\ last.emitted = 0
    /\ Len(input) >= 2
    /\ ~input[Len(input)].fresh
    /\ input[Len(input)].flagged
    /\ ~input[Len(input) - 1].flagged

\* ---------------------------------------------------------------- C4

\* The input events whose bytes some output record contains.
SourcesOf(bytes) == {SourceOf(bytes[j]) : j \in 1..Len(bytes)}
InOutput == UNION {SourcesOf(PayloadOf(output[i].event)) : i \in 1..Len(output)}

\* The first input[s..n] of key k whose concatenated payload crosses the
\* ceiling, as a set (empty when none does).
Crossings(k, s, n) ==
    {m \in s..n : input[m].file = k
                  /\ ~UnderCeiling(Len(Concat(Payloads(Fragments(k, s, m)))))}

\* C4 as stated: once the concatenated payload of a chain of K (the run of
\* K's fragments since K's previous terminator) has crossed the ceiling, no
\* fragment of that chain, the ones after the crossing included, is
\* contained in an output record.  A tick sweep between two fragments of
\* the chain refutes it.
C4_OverLimitChainNeverInOutput ==
    \A n \in 1..Len(input) :
        Crossings(input[n].file, ChainStart(n), n) # {}
        => \A i \in 1..Len(input) :
              (input[i].file = input[n].file /\ ChainStart(i) = ChainStart(n))
              => input[i].event.id \notin InOutput

\* C4, amended: once a bucket of K is flagged over-limit, no fragment of K
\* consumed while that bucket is in the map (the ones merged before the
\* crossing, the one that crossed, the ones absorbed afterwards and the
\* terminator) is contained in an output record, under any interleaving of
\* the callbacks.
C4_FlaggedBucketNeverInOutput ==
    \A n \in 1..Len(input) :
        input[n].flagged
        => \A i \in 1..Len(input) :
              (input[i].file = input[n].file /\ BucketStart(i) = BucketStart(n))
              => input[i].event.id \notin InOutput

\* The terminator of a chain was absorbed by the bucket that the chain's
\* first fragment had flagged, and nothing was emitted.
C4_Witness ==
    /\ Len(input) >= 2
    /\ input[1].flagged
    /\ input[2].file = input[1].file
    /\ BucketStart(2) = 1
    /\ IsSome(input[2].event.message)
    /\ ~input[2].is_partial
    /\ UnderCeiling(Len(PayloadOf(input[2].event)))
    /\ ~IsSome(buckets[input[1].file])
    /\ output = <<>>

\* ---------------------------------------------------------------- C5

RECURSIVE Ascending(_)
\* The elements of a finite set of numbers, in ascending order.
Ascending(S) ==
    IF S = {} THEN <<>>
    ELSE LET lo == CHOOSE x \in S : \A y \in S : x <= y
         IN <<lo>> \o Ascending(S \ {lo})

\* A payload is the concatenation, in arrival order, of the payloads of the
\* input events it holds bytes of, all of them events of key k.
PureOf(bytes, k) ==
    LET ids == Ascending(SourcesOf(bytes))
    IN /\ \A j \in 1..Len(ids) : input[ids[j]].file = k
       /\ bytes = Concat([j \in 1..Len(ids) |-> PayloadOf(input[ids[j]].event)])

\* Every output record and every bucket holds payloads of one key only.
NoContamination ==
    /\ \A i \in 1..Len(output) :
          PureOf(PayloadOf(output[i].event), file_of(output[i].event))
    /\ \A k \in Keys :
          IsSome(buckets[k]) => PureOf(PayloadOf(Unwrap(buckets[k]).event), k)

BucketOf(id) == \E k \in Keys : IsSome(buckets[k]) /\ Unwrap(buckets[k]).event.id = id

\* C6: while the tick callback keeps being invoked as time advances (or the
\* stream ends), every bucket that is created is eventually removed from
\* the map, also when no further event arrives for its key.
C6_EveryBucketResolved ==
    \A id \in 1..MaxEvents : BucketOf(id) ~> ~BucketOf(id)

\* A bucket is in the map, the stream delivers nothing more, and the stream
\* has not ended.
C6_Witness ==
    /\ \E id \in 1..MaxEvents : BucketOf(id)
    /\ ~ended
    /\ now + expiration_time > MaxTime

\* ---------------------------------------------------------------- C7

\* The records of a sequence of output entries, as a set.
EventsOf(records) == {records[i].event : i \in 1..Len(records)}

\* C7: the end-of-stream flush emits every bucket in the map that is not
\* flagged exactly once, whether or not its deadline has passed, drops every
\* flagged bucket without emitting it, and leaves the map empty.
C7_FlushDrainsTheMap ==
    [][FlushStep =>
        /\ OutputGrows
        /\ \A k \in Keys : ~IsSome(buckets'[k])
        /\ EventsOf(NewRecords) =
              {Unwrap(buckets[k]).event : k \in {j \in Keys : IsSome(buckets[j]) /\ ~Flagged(j)}}
        /\ Len(NewRecords) = Cardinality({j \in Keys : IsSome(buckets[j]) /\ ~Flagged(j)})
        /\ \A i \in 1..Len(NewRecords) : NewRecords[i].by = "flush"]_vars

\* The flush, before any deadline, emitted one bucket and dropped a flagged
\* one.
C7_Witness ==
    /\ last.op = "flush"
    /\ Cardinality(last.removed) = 2
    /\ last.emitted = 1
    /\ now < expiration_time
    /\ output[Len(output)].by = "flush"
    /\ \A k \in Keys : ~IsSome(buckets[k])

\* ---------------------------------------------------------------- C8

\* The bucket of key k is in the map and its deadline is at or before now.
Due(k) == IsSome(buckets[k]) /\ Unwrap(buckets[k]).expiration <= now

\* C8: a tick sweep at time now removes exactly the buckets whose expiration
\* is at or before now, emits the record of each removed bucket that is not
\* flagged (once), emits nothing for the flagged ones, and leaves every
\* other bucket as it was; no bucket is emitted before its deadline.
C8_SweepRemovesExactlyTheExpired ==
    [][TickStep =>
        /\ OutputGrows
        /\ \A k \in Keys : buckets'[k] = IF Due(k) THEN None ELSE buckets[k]
        /\ EventsOf(NewRecords) =
              {Unwrap(buckets[k]).event : k \in {j \in Keys : Due(j) /\ ~Flagged(j)}}
        /\ Len(NewRecords) = Cardinality({j \in Keys : Due(j) /\ ~Flagged(j)})
        /\ \A i \in 1..Len(NewRecords) : NewRecords[i].by = "tick"]_vars

\* A sweep removed and emitted a bucket at its deadline and left the bucket
\* of the other key, not yet due, in the map.
C8_Witness ==
    /\ last.op = "tick"
    /\ Cardinality(last.removed) = 1
    /\ last.emitted = 1
    /\ output[Len(output)].by = "tick"
    /\ \E k \in Keys : IsSome(buckets[k]) /\ Unwrap(buckets[k]).expiration > now
    /\ \E i \in 1..Len(input) : /\ input[i].event = output[Len(output)].event
                                /\ lastTick = now

\* ---------------------------------------------------------------- C9

DiagSource(j) == SourceOf(diags[j].event[1])

\* C10: over the lifetime of a bucket the size-exceeded diagnostic is
\* emitted exactly once if the bucket is ever flagged, by the add_event call
\* that sets the flag, and never otherwise; a fragment absorbed by a flagged
\* bucket produces none.
C10_DiagnosticOncePerBucket ==
    /\ [](\A s \in 1..Len(input) :
            input[s].fresh =>
                Cardinality({j \in 1..Len(diags) : BucketStart(DiagSource(j)) = s})
                = IF \E i \in 1..Len(input) : BucketStart(i) = s /\ input[i].flagged
                  THEN 1 ELSE 0)
    /\ [][IF ItemStep /\ input'[Len(input')].flagged
                      /\ ~Flagged(input'[Len(input')].file)
          THEN /\ Len(diags') = Len(diags) + 1
               /\ SubSeq(diags', 1, Len(diags)) = diags
               /\ diags'[Len(diags')].event = PayloadOf(input'[Len(input')].event)
               /\ diags'[Len(diags')].configured_limit = Unwrap(maybe_max_merged_line_bytes)
          ELSE diags' = diags]_vars

\* A bucket was flagged by its first fragment, a second fragment was
\* absorbed, and one diagnostic has been emitted.
C10_Witness ==
    /\ Len(input) >= 2
    /\ input[1].flagged
    /\ BucketStart(2) = 1
    /\ input[2].flagged
    /\ IsSome(input[2].event.message)
    /\ Len(diags) = 1
    /\ DiagSource(1) = 1

\* ---------------------------------------------------------------- C11

\* The non-partial input event that completed the bucket created by event e.
TerminatorOf(e) ==
    CHOOSE n \in 1..Len(input) : ~input[n].is_partial /\ BucketStart(n) = e

\* The positions of the output records emitted by completion.
Completions == {i \in 1..Len(output) : output[i].by = "item"}

\* The records emitted by completion stand in the output in the arrival
\* order of their terminators.
CompletionsInArrivalOrder ==
    \A i, j \in Completions :
        i < j => TerminatorOf(output[i].event.id) < TerminatorOf(output[j].event.id)

SweptKey(rec) ==
    CHOOSE k \in Keys : IsSome(buckets[k]) /\ Unwrap(buckets[k]).event = rec.event

\* The deadline of the bucket that the record rec is taken from by the step.
DeadlineOf(rec) == Unwrap(buckets[SweptKey(rec)]).expiration

\* The records one sweep emits stand in the order of their deadlines.
SweepInDeadlineOrder ==
    \A i, j \in 1..Len(NewRecords) :
        i < j => DeadlineOf(NewRecords[i]) <= DeadlineOf(NewRecords[j])

\* Every record the sweep emits comes from a bucket whose deadline elapsed
\* after the previous sweep and not after this one.
SweepSincePrevious ==
    \A i \in 1..Len(NewRecords) :
        /\ lastTick < DeadlineOf(NewRecords[i])
        /\ DeadlineOf(NewRecords[i]) <= now

\* C12 as stated: expired buckets are emitted in the order their deadlines
\* elapse, whether two buckets are emitted by the same emit_expired_events call
\* or by different ones.
C12_DeadlineOrderInAndAcrossSweeps ==
    [][TickStep => SweepSincePrevious /\ SweepInDeadlineOrder]_vars

\* C12, amended: buckets emitted by different emit_expired_events calls appear
\* in the order their deadlines elapse: a sweep emits exactly buckets whose
\* deadline lies after the time of the previous sweep and not after its own
\* time, and appends them to the output.
C12_DeadlineOrderAcrossSweeps ==
    [][TickStep => SweepSincePrevious /\ OutputGrows]_vars

\* Two sweeps at different times have each emitted one bucket.
C12_Witness ==
    /\ Len(output) = 2
    /\ output[1].by = "tick"
    /\ output[2].by = "tick"
    /\ last.op = "tick"
    /\ last.emitted = 1

\* ---------------------------------------------------------------- C13

\* The payload held for key k once the per-item callback of the step has run
\* add_event: that of the bucket of k, or of the record the callback emits
\* when the event is non-partial and its bucket is removed at once.
PayloadAfterAdd(k) ==
    IF IsSome(buckets'[k]) THEN PayloadOf(Unwrap(buckets'[k]).event)
    ELSE PayloadOf(NewRecords[1].event)

\* C13 as stated: when add_event merges a fragment into an unflagged bucket and
\* the buffered record or the fragment has a message that is missing or not a
\* byte string, the payload afterwards is the concatenation of the two
\* payloads with the malformed one counted as empty, so that no byte of the
\* well-formed one is lost.
C13_MalformedMessageIsEmptyPayload ==
    [][ItemStep =>
        LET e == input'[Len(input')]
            k == e.file
        IN  ( /\ IsSome(buckets[k])
              /\ ~Flagged(k)
              /\ ~e.flagged
              /\ \/ ~IsSome(Unwrap(buckets[k]).event.message)
                 \/ ~IsSome(e.event.message) )
            => PayloadAfterAdd(k) =
                  PayloadOf(Unwrap(buckets[k]).event) \o PayloadOf(e.event)
      ]_vars

\* ---------------------------------------------------------------- C14

\* A flagged bucket is left as it is, or removed, by every step.
FlaggedBucketFrozen ==
    \A k \in Keys : Flagged(k) => buckets'[k] = buckets[k] \/ buckets'[k] = None

\* The per-item callback of an event whose key has a flagged bucket emits no
\* record and no diagnostic: the fragment is discarded.
FragmentDiscarded ==
    (ItemStep /\ Flagged(input'[Len(input')].file)) =>
        /\ NewRecords = <<>>
        /\ diags' = diags
        /\ input'[Len(input')].event.id \notin InOutput'

\* C14: the over-limit flag is a one-way latch that freezes the bucket: a
\* flagged bucket keeps its payload, its expiration and its flag until it is
\* removed, and an add_event for its key discards the incoming fragment.
C14_FlagIsALatch == [][FlaggedBucketFrozen /\ FragmentDiscarded]_vars

\* A byte-string fragment has been added to a flagged bucket, which is still in
\* the map.
C14_Witness ==
    /\ Len(input) = 2
    /\ input[1].flagged
    /\ input[2].file = input[1].file
    /\ input[2].is_partial
    /\ ~input[2].fresh
    /\ IsSome(input[2].event.message)
    /\ Flagged(input[2].file)

\* ---------------------------------------------------------------- C15

\* The input events of key k consumed so far.
ConsumedOf(k) == {i \in 1..Len(input) : input[i].file = k}

\* The ids of the events whose record is in the output.
EmittedIds == {output[i].event.id : i \in 1..Len(output)}

\* After the per-item callback of a non-partial event no bucket exists for its
\* key; after that of a partial event one does.
PresenceAfterItem ==
    ItemStep =>
        LET e == input'[Len(input')]
        IN IF e.is_partial THEN IsSome(buckets'[e.file]) ELSE buckets'[e.file] = None

\* A bucket exists for k only if a fragment of k was consumed and is not yet
\* resolved: the last event of k is partial, the bucket holds the record of the
\* event that created it, that record is not in the output, and the stream has
\* not been flushed.
PresenceOnlyIfUnresolved ==
    \A k \in Keys :
        IsSome(buckets[k]) =>
            /\ ConsumedOf(k) # {}
            /\ input[MaxOf(ConsumedOf(k))].is_partial
            /\ Unwrap(buckets[k]).event.id = BucketStart(MaxOf(ConsumedOf(k)))
            /\ Unwrap(buckets[k]).event.id \notin EmittedIds
            /\ ~ended

\* C15: at callback boundaries, no bucket exists for K after a non-partial
\* event of K was consumed (whether a record was emitted or a flagged bucket
\* discarded), one bucket exists for K after a partial event of K was
\* consumed, and a bucket exists for K only if a fragment of K was consumed
\* and is not yet resolved by completion, expiry or flush.
C15_BucketPresence == [](PresenceOnlyIfUnresolved) /\ [][PresenceAfterItem]_vars

\* A partial event has left a bucket for its key, and a non-partial event of
\* another key, flagged over-limit, has left none and emitted nothing.
C15_Witness ==
    /\ Len(input) = 2
    /\ input[1].is_partial
    /\ IsSome(buckets[input[1].file])
    /\ ~input[2].is_partial
    /\ input[2].flagged
    /\ input[2].file # input[1].file
    /\ buckets[input[2].file] = None
    /\ output = <<>>

\* ---------------------------------------------------------------- C16

\* The payload length that add_event of event, for key k, holds against the
\* ceiling: the length of a first fragment, or of the concatenation of the
\* buffered payload and the fragment; None when no byte string is read.
ComparedLength(k, event) ==
    IF ~IsSome(event.message) THEN None
    ELSE IF ~IsSome(buckets[k]) THEN Some(Len(Unwrap(event.message)))
    ELSE IF IsSome(Unwrap(buckets[k]).event.message)
    THEN Some(Len(Unwrap(Unwrap(buckets[k]).event.message)) + Len(Unwrap(event.message)))
    ELSE None

\* The length is strictly greater than the configured ceiling.
StrictlyOver(len) ==
    /\ IsSome(len)
    /\ IsSome(maybe_max_merged_line_bytes)
    /\ Unwrap(len) > Unwrap(maybe_max_merged_line_bytes)

\* The length equals the configured ceiling.
AtCeiling(len) ==
    /\ IsSome(len)
    /\ IsSome(maybe_max_merged_line_bytes)
    /\ Unwrap(len) = Unwrap(maybe_max_merged_line_bytes)

\* Without a ceiling nothing is flagged and no diagnostic is emitted.
NoCeilingNoFlag ==
    ~IsSome(maybe_max_merged_line_bytes) =>
        /\ \A k \in Keys : ~Flagged(k)
        /\ \A i \in 1..Len(input) : ~input[i].flagged
        /\ diags = <<>>

\* A fragment added to no bucket or to an unflagged one flags the bucket, and
\* emits the diagnostic, exactly when the length compared is strictly over the
\* ceiling; a non-partial event that brings the payload to the ceiling has its
\* record emitted.
FlaggedIffStrictlyOver ==
    ItemStep =>
        LET e == input'[Len(input')]
            len == ComparedLength(e.file, e.event)
        IN ~Flagged(e.file) =>
            /\ e.flagged <=> StrictlyOver(len)
            /\ Len(diags') = Len(diags) + (IF StrictlyOver(len) THEN 1 ELSE 0)
            /\ (AtCeiling(len) /\ ~e.is_partial) =>
                  /\ Len(NewRecords) = 1
                  /\ Len(PayloadOf(NewRecords[1].event)) = Unwrap(len)

\* C16: the ceiling comparison is strict: a bucket is flagged, and the
\* diagnostic emitted, exactly when the payload length of a first fragment or
\* of a concatenation is strictly greater than max_merged_line_bytes; a chain
\* whose payload length equals the ceiling is not flagged and is emitted; with
\* no ceiling configured no bucket is ever flagged.
C16_CeilingIsStrict == [](NoCeilingNoFlag) /\ [][FlaggedIffStrictlyOver]_vars

\* A chain of two fragments whose concatenation is exactly as long as the
\* ceiling has been emitted.
C16_Witness ==
    /\ IsSome(maybe_max_merged_line_bytes)
    /\ Len(input) = 2
    /\ input[1].is_partial
    /\ ~input[2].is_partial
    /\ ~input[2].fresh
    /\ ~input[2].flagged
    /\ Len(output) = 1
    /\ output[1].by = "item"
    /\ Len(PayloadOf(output[1].event)) = Unwrap(maybe_max_merged_line_bytes)
    /\ SourcesOf(PayloadOf(output[1].event)) = {1, 2}

\* ---------------------------------------------------------------- C17

\* An event without a boolean partial flag terminates the chain of its key:
\* no bucket is left for the key, and the record of an unflagged bucket is
\* emitted.
MissingFlagTerminates ==
    ItemStep =>
        LET e == input'[Len(input')]
        IN ~IsSome(e.event.partial) =>
            /\ buckets'[e.file] = None
            /\ Len(NewRecords) = (IF e.flagged THEN 0 ELSE 1)

\* An event without a string file field is handled under the empty-string
\* key: no other bucket changes, and its payload is appended to the payload
\* that an unflagged bucket of the empty-string key holds (unless the
\* addition flags the bucket).
MissingFileIsEmptyKey ==
    ItemStep =>
        LET e == input'[Len(input')]
        IN ~IsSome(e.event.file) =>
            /\ \A k \in Keys \ {""} : buckets'[k] = buckets[k]
            /\ e.is_partial => IsSome(buckets'[""])
            /\ ( /\ IsSome(buckets[""])
                 /\ ~Flagged("")
                 /\ ~e.flagged
                 /\ IsSome(Unwrap(buckets[""]).event.message)
                 /\ IsSome(e.event.message) )
               => PayloadAfterAdd("") =
                     Unwrap(Unwrap(buckets[""]).event.message) \o Unwrap(e.event.message)

\* C17: an event whose partial flag is missing or not a boolean is treated as
\* non-partial and resolves the chain of its key; an event whose file field is
\* missing or not a string gets the empty-string key, so that such events
\* share one bucket and are merged in arrival order.
C17_Defaults == [][MissingFlagTerminates /\ MissingFileIsEmptyKey]_vars

\* Two events without a file field, the second without a partial flag, have
\* been merged into one record in arrival order.
C17_Witness ==
    /\ Len(input) = 2
    /\ ~IsSome(input[1].event.file)
    /\ ~IsSome(input[2].event.file)
    /\ input[1].event.partial = Some(TRUE)
    /\ ~IsSome(input[2].event.partial)
    /\ IsSome(input[1].event.message)
    /\ IsSome(input[2].event.message)
    /\ Len(output) = 1
    /\ output[1].by = "item"
    /\ PayloadOf(output[1].event) = PayloadOf(input[1].event) \o PayloadOf(input[2].event)

\* ---------------------------------------------------------------- C18

\* Key k has been resolved: an event of k was consumed, and the last one was
\* non-partial or the bucket of k has been removed since.
Resolved(k) ==
    /\ ConsumedOf(k) # {}
    /\ ~input[MaxOf(ConsumedOf(k))].is_partial \/ ~IsSome(buckets[k])

\* The fragment alone is over the ceiling.
AloneOver(event) ==
    /\ IsSome(event.message)
    /\ IsSome(maybe_max_merged_line_bytes)
    /\ Len(Unwrap(event.message)) > Unwrap(maybe_max_merged_line_bytes)

\* The bucket a fragment creates when it starts a cycle at the current time.
FreshBucket(event) ==
    [event |-> event,
     expiration |-> now + expiration_time,
     exceeds_max_merged_line_limit |-> AloneOver(event)]

\* The next event of a resolved key starts from nothing: a partial one leaves
\* the bucket made of it alone, a non-partial one is emitted as it is unless
\* it alone is over the ceiling.
FreshCycle ==
    ItemStep =>
        LET e == input'[Len(input')]
        IN Resolved(e.file) =>
            /\ e.flagged <=> AloneOver(e.event)
            /\ IF e.is_partial
               THEN buckets'[e.file] = Some(FreshBucket(e.event))
               ELSE /\ buckets'[e.file] = None
                    /\ NewRecords = IF AloneOver(e.event) THEN <<>>
                                    ELSE <<[event |-> e.event, by |-> "item"]>>

\* C18: a resolved key starts a fresh cycle: after the bucket of K was removed
\* by completion or by the expiry sweep, the next fragment of K creates a
\* bucket whose payload is that fragment's alone, whose expiration is the new
\* arrival time plus the window, and whose flag is computed from that fragment
\* alone, also when the removed bucket was flagged.
C18_FreshCycle == [][FreshCycle]_vars

\* After a flagged bucket of a key was removed by completion, a later fragment
\* of the key, arriving after time 0, has created an unflagged bucket.
C18_Witness ==
    /\ Len(input) = 2
    /\ input[1].flagged
    /\ ~input[1].is_partial
    /\ input[2].file = input[1].file
    /\ input[2].is_partial
    /\ IsSome(input[2].event.message)
    /\ IsSome(buckets[input[2].file])
    /\ Unwrap(buckets[input[2].file]).event = input[2].event
    /\ ~Flagged(input[2].file)
    /\ Unwrap(buckets[input[2].file]).expiration > expiration_time

\* ---------------------------------------------------------------- C19

\* The output records that carry bytes of the input event id.
RecordsWith(id) == {i \in 1..Len(output) : id \in SourcesOf(PayloadOf(output[i].event))}

\* The number of bytes of the input event id in a byte string.
BytesFrom(id, bytes) == Cardinality({j \in 1..Len(bytes) : SourceOf(bytes[j]) = id})

\* C19: no duplication and no growth of the stream: every input event
\* contributes its payload to at most one output record (and there once), no
\* bucket is emitted more than once, and the output never holds more records
\* than input events were consumed.
C19_NoDuplicationNoGrowth ==
    /\ \A id \in 1..Len(input) :
          /\ Cardinality(RecordsWith(id)) <= 1
          /\ \A i \in RecordsWith(id) :
                BytesFrom(id, PayloadOf(output[i].event))
                    = Len(PayloadOf(input[id].event))
    /\ \A i, j \in 1..Len(output) : output[i].event.id = output[j].event.id => i = j
    /\ EmittedIds \subseteq 1..Len(input)
    /\ Len(output) <= Len(input)

\* The stream has ended after two events, one emitted by the sweep and one by
\* the flush.
C19_Witness ==
    /\ ended
    /\ Len(input) = 2
    /\ Len(output) = 2
    /\ output[1].by = "tick"
    /\ output[2].by = "flush"
    /\ IsSome(output[1].event.message)
    /\ IsSome(output[2].event.message)

\* ---------------------------------------------------------------- C20

\* Every input event consumed so far carries a byte-string message.
AllInputBytes == \A i \in 1..Len(input) : IsSome(input[i].event.message)

\* The fragment that flagged the bucket of k: the first event put into the
\* bucket whose addition left it flagged.
CrossingFragment(k) ==
    CHOOSE n \in ConsumedOf(k) :
        /\ n >= Unwrap(buckets[k]).event.id
        /\ input[n].flagged
        /\ \A m \in ConsumedOf(k) :
              (m >= Unwrap(buckets[k]).event.id /\ input[m].flagged) => n <= m

\* The length of the payload buffered for k.
BufferedLength(k) == Len(PayloadOf(Unwrap(buckets[k]).event))

\* C20: with a ceiling configured and byte-string messages only, every record
\* in the output has a payload no longer than max_merged_line_bytes, an
\* unflagged bucket holds no more than the ceiling, and a flagged bucket holds
\* no more than the ceiling plus the length of the one fragment that crossed
\* it.
C20_PayloadBounds ==
    (IsSome(maybe_max_merged_line_bytes) /\ AllInputBytes) =>
        /\ \A i \in 1..Len(output) :
              Len(PayloadOf(output[i].event)) <= Unwrap(maybe_max_merged_line_bytes)
        /\ \A k \in Keys :
              IsSome(buckets[k]) =>
                 IF Flagged(k)
                 THEN BufferedLength(k) <= Unwrap(maybe_max_merged_line_bytes)
                                           + Len(PayloadOf(input[CrossingFragment(k)].event))
                 ELSE BufferedLength(k) <= Unwrap(maybe_max_merged_line_bytes)

\* A bucket of two byte-string fragments is flagged: the second fragment took
\* its payload over the ceiling.
C20_Witness ==
    /\ IsSome(maybe_max_merged_line_bytes)
    /\ Len(input) = 2
    /\ AllInputBytes
    /\ ~input[1].flagged
    /\ input[2].flagged
    /\ Flagged(input[2].file)
    /\ CrossingFragment(input[2].file) = 2
    /\ SourcesOf(PayloadOf(Unwrap(buckets[input[2].file]).event)) = {1, 2}
    /\ BufferedLength(input[2].file) > Unwrap(maybe_max_merged_line_bytes)

\* ---------------------------------------------------------------- C21

\* The fields of a record other than its message.
NonMessage(event) == [id |-> event.id, file |-> event.file, partial |-> event.partial]

\* The record is the record of an input event that created a bucket, with at
\* most its message replaced: its other fields are those of that event, and
\* its payload holds bytes of that event and of later events only.
FromCreatingFragment(record) ==
    /\ record.id \in 1..Len(input)
    /\ input[record.id].fresh
    /\ NonMessage(record) = NonMessage(input[record.id].event)
    /\ \A s \in SourcesOf(PayloadOf(record)) : s >= record.id
    /\ IsSome(record.message) <=> IsSome(input[record.id].event.message)

\* C21: a merged record is the first fragment's record with only its message
\* replaced: every field other than the message, in an emitted record and in
\* a buffered one, is that of the fragment that created the bucket, and the
\* non-message fields of the later fragments, the terminator included, are
\* discarded.
C21_FirstFragmentsRecord ==
    /\ \A i \in 1..Len(output) : FromCreatingFragment(output[i].event)
    /\ \A k \in Keys : IsSome(buckets[k]) => FromCreatingFragment(Unwrap(buckets[k]).event)

\* A terminator whose partial flag differs from the first fragment's has
\* completed a record of two fragments; the record carries the first
\* fragment's fields.
C21_Witness ==
    /\ Len(input) = 2
    /\ Len(output) = 1
    /\ output[1].by = "item"
    /\ SourcesOf(PayloadOf(output[1].event)) = {1, 2}
    /\ input[2].event.partial # input[1].event.partial
    /\ output[1].event.partial = input[1].event.partial
    /\ output[1].event.id = 1

====
